---- MODULE Spec2Model ----
(***************************************************************************)
(* Model of the subtitle utilities: subtitle_utils.py (episode matcher,    *)
(* glob, confirmation prompt), extract_subtitles.py (extract_subtitles,    *)
(* extract_fonts and the script's main block) and rename_subtitles.py.     *)
(*                                                                         *)
(* File names are sequences of one-character strings, so that pathlib's    *)
(* stem / suffix / suffixes and the regular expressions are computed on    *)
(* the characters as the Python code computes them.  External tools        *)
(* (ffprobe, ffmpeg) are assumed to be installed: a started command ends   *)
(* with an arbitrary exit code; its only modelled effect is its entry in   *)
(* the log `ran`.  Path.rename follows POSIX rename(2): an existing        *)
(* destination is replaced silently.                                       *)
(***************************************************************************)
EXTENDS Integers, Sequences, FiniteSets, TLC

\* Longest file sequence / directory listing the model enumerates.
MaxFiles == 2

(***************************************************************************)
(* Characters and strings                                                  *)
(***************************************************************************)
\* \s of Python's re for str patterns (ASCII part).
Whitespace == {" ", "\t", "\n", "\r", "\f"}

\* \d
Digits == {"0", "1", "2", "3", "4", "5", "6", "7", "8", "9"}

SetMax(S) == CHOOSE x \in S : \A y \in S : y <= x

SetMin(S) == CHOOSE x \in S : \A y \in S : x <= y

\* str.endswith
EndsWith(s, suf) ==
    /\ Len(suf) <= Len(s)
    /\ SubSeq(s, Len(s) - Len(suf) + 1, Len(s)) = suf

\* Positions of "." in a name.
DotPositions(s) == {i \in 1..Len(s) : s[i] = "."}

(***************************************************************************)
(* pathlib.PurePath: a path is its parent directory, its name and whether  *)
(* it has been made absolute.                                              *)
(***************************************************************************)
Path(parent, name) == [parent |-> parent, name |-> name, abs |-> FALSE]

\* PurePath.suffix: from the last dot, unless that dot is the first or the
\* last character of the name.
suffix(name) ==
    IF DotPositions(name) = {} THEN <<>>
    ELSE LET i == SetMax(DotPositions(name))
         IN IF 1 < i /\ i < Len(name) THEN SubSeq(name, i, Len(name)) ELSE <<>>

\* PurePath.stem: the name without its suffix.
stem(name) ==
    IF DotPositions(name) = {} THEN name
    ELSE LET i == SetMax(DotPositions(name))
         IN IF 1 < i /\ i < Len(name) THEN SubSeq(name, 1, i - 1) ELSE name

\* "".join(PurePath.suffixes): nothing when the name ends with a dot;
\* otherwise the leading dots are stripped and everything from the first
\* remaining dot on is kept.
joined_suffixes(name) ==
    IF Len(name) > 0 /\ name[Len(name)] = "." THEN <<>>
    ELSE LET body == {i \in 1..Len(name) : name[i] # "."}
             first == IF body = {} THEN Len(name) + 1 ELSE SetMin(body)
             dots == {i \in DotPositions(name) : i > first}
         IN IF dots = {} THEN <<>> ELSE SubSeq(name, SetMin(dots), Len(name))

\* PurePath.with_name
with_name(p, name) == [p EXCEPT !.name = name]

\* Path.resolve: the absolute path of the same file (no symlinks modelled).
resolve(p) == [p EXCEPT !.abs = TRUE]

(***************************************************************************)
(* Regular expressions.  Every pattern of the repository has the shape     *)
(* .*<pre>(\d{2})<post>.* where <pre> and <post> are one-character         *)
(* classes.  A pattern is the record of the two classes.                   *)
(***************************************************************************)
Pattern(pre, post) == [type |-> "Pattern", pre |-> pre, post |-> post]

\* simple_ep_pattern = re.compile(r".*\s(\d{2})\s.*")
simple_ep_pattern == Pattern(Whitespace, Whitespace)

\* Pattern.match(s): anchored at the start; the leading .* is greedy and
\* does not cross a newline, so group 1 is taken at the last position
\* where <pre>\d\d<post> occurs.
MatchPositions(pat, s) ==
    {i \in 1..(Len(s) - 3) :
        /\ s[i] \in pat.pre
        /\ s[i + 1] \in Digits
        /\ s[i + 2] \in Digits
        /\ s[i + 3] \in pat.post
        /\ \A j \in 1..(i - 1) : s[j] # "\n"}

re_match(pat, s) ==
    IF MatchPositions(pat, s) = {} THEN [matched |-> FALSE, group1 |-> <<>>]
    ELSE LET i == SetMax(MatchPositions(pat, s))
         IN [matched |-> TRUE, group1 |-> <<s[i + 1], s[i + 2]>>]

(***************************************************************************)
(* dict: a sequence of [k, v] entries in insertion order, keys distinct.   *)
(***************************************************************************)
DictKeys(d) == {d[i].k : i \in 1..Len(d)}

DictGet(d, key) == (CHOOSE e \in {d[i] : i \in 1..Len(d)} : e.k = key).v

\* d[key] = value: a new key is appended, an existing key keeps its place
\* and takes the new value.
DictSet(d, key, value) ==
    IF key \in DictKeys(d)
    THEN [i \in 1..Len(d) |-> IF d[i].k = key THEN [k |-> key, v |-> value] ELSE d[i]]
    ELSE Append(d, [k |-> key, v |-> value])

(***************************************************************************)
(* subtitle_utils.py                                                       *)
(***************************************************************************)
\* MatcherStep with the first file of a key kept instead of the last.
MatcherStepFirstWins(d, video, pat) ==
    LET m == re_match(pat, stem(video.name))
    IN IF m.matched /\ m.group1 \notin DictKeys(d)
       THEN Append(d, [k |-> m.group1, v |-> video])
       ELSE d

\* The body of the loop of format_video_by_ep_collection_with_pattern.
MatcherStep(d, video, pat) ==
    LET m == re_match(pat, stem(video.name))
    IN IF m.matched THEN DictSet(d, m.group1, video) ELSE d

RECURSIVE MatcherLoop(_, _, _, _)
MatcherLoop(d, video_collection, i, pat) ==
    IF i > Len(video_collection) THEN d
    ELSE MatcherLoop(MatcherStep(d, video_collection[i], pat),
                     video_collection, i + 1, pat)

format_video_by_ep_collection_with_pattern(video_collection, video_ep_pattern) ==
    MatcherLoop(<<>>, video_collection, 1, video_ep_pattern)

\* Path.glob("*<suffix>") over a directory listing: the entries whose name
\* ends with the suffix, in the order the directory yields them.
RECURSIVE GlobLoop(_, _, _, _)
GlobLoop(names, i, parent, suf) ==
    IF i > Len(names) THEN <<>>
    ELSE IF EndsWith(names[i], suf)
         THEN <<Path(parent, names[i])>> \o GlobLoop(names, i + 1, parent, suf)
         ELSE GlobLoop(names, i + 1, parent, suf)

get_video_collection_with_glob(names, suf, video_dir) ==
    GlobLoop(names, 1, video_dir, suf)

get_video_by_ep_collection_with_glob_and_pattern(names, suf, video_ep_pattern, video_dir) ==
    format_video_by_ep_collection_with_pattern(
        get_video_collection_with_glob(names, suf, video_dir), video_ep_pattern)

\* prompt_for_user_confirmation taking "n" for a yes as well.
AcceptNoToo(user_input) == user_input \in {"", "Y", "y", "n"}

\* prompt_for_user_confirmation: the truth value returned for a typed line.
prompt_for_user_confirmation(user_input) == user_input \in {"", "Y", "y"}


(***************************************************************************)
(* extract_subtitles.py: commands and planning                             *)
(***************************************************************************)
\* Stand-ins for "no path given" (font_dir = None) and for a command that
\* runs in the working directory of the script (no cwd argument).
NoPath == [parent |-> "None", name |-> <<>>, abs |-> FALSE]

InheritCwd == [parent |-> "cwd", name |-> <<>>, abs |-> FALSE]

\* ("ffprobe", "-loglevel", "quiet", "-print_format", "json",
\*  "-show_streams", "-select_streams", "s", origin_video)
ProbeCmd(origin_video) ==
    [tool |-> "ffprobe", input |-> origin_video, track |-> -1, output |-> <<>>]

\* ("ffmpeg", "-i", str(origin_video), "-n", "-codec", "copy",
\*  "-map", f":{sub_track}", sub_name)
ExtractCmd(origin_video, sub_track, sub_name) ==
    [tool |-> "ffmpeg", input |-> origin_video, track |-> sub_track, output |-> sub_name]

\* ("ffmpeg", "-dump_attachment:t", "", "-n", "-i", str(video.resolve()))
DumpCmd(video) ==
    [tool |-> "ffmpeg-dump", input |-> resolve(video), track |-> -1, output |-> <<>>]

\* The codec names ffprobe would report for the subtitle streams of a
\* container, by position.
StreamCodecs == <<"subrip", "ass", "hdmv_pgs_subtitle">>

\* subprocess.run(cmd).stdout: run is called without capture_output or
\* stdout=PIPE, so the attribute is None whatever ffprobe printed.
ProbeStdout(origin_video) == "None"

\* json.loads(subprocess.run(cmd).stdout): json.loads(None) raises TypeError.
_get_video_info(origin_video) ==
    IF ProbeStdout(origin_video) = "None"
    THEN [raised |-> "TypeError", streams |-> <<>>]
    ELSE [raised |-> "none", streams |-> StreamCodecs]

\* A dict is true when it is neither None nor empty.
Truthy(tm) == ~tm.isNone /\ Len(tm.items) > 0

_get_sub_stem(origin_video, tm, pat) ==
    IF Truthy(tm)
    THEN IF pat.type # "Pattern"
         THEN [raised |-> "AttributeError", value |-> <<>>]
         ELSE LET m == re_match(pat, stem(origin_video.name))
              IN IF m.matched
                 THEN IF m.group1 \in DictKeys(tm.items)
                      THEN [raised |-> "none",
                            value |-> stem(DictGet(tm.items, m.group1).name)]
                      ELSE [raised |-> "KeyError", value |-> <<>>]
                 ELSE [raised |-> "none", value |-> stem(origin_video.name)]
    ELSE [raised |-> "none", value |-> stem(origin_video.name)]

\* video_info["streams"][sub_track]["codec_name"], a zero-based list index.
_get_sub_format(video_info, sub_track) ==
    IF sub_track + 1 \notin 1..Len(video_info.streams)
    THEN [raised |-> "IndexError", value |-> <<>>]
    ELSE LET codec_name == video_info.streams[sub_track + 1]
         IN IF codec_name = "subrip" THEN [raised |-> "none", value |-> <<"s", "r", "t">>]
            ELSE IF codec_name = "ass" THEN [raised |-> "none", value |-> <<"a", "s", "s">>]
            ELSE [raised |-> "ValueError", value |-> <<>>]

\* The inner loop (over sub_lang_by_track_collection.items()) for one video.
RECURSIVE PlanTracks(_, _, _, _, _, _)
PlanTracks(origin_video, video_info, trs, j, tm, pat) ==
    IF j > Len(trs) THEN [err |-> "none", cmds |-> <<>>]
    ELSE LET st == _get_sub_stem(origin_video, tm, pat)
             fmt == _get_sub_format(video_info, trs[j].track)
             sub_name == st.value \o <<".">> \o trs[j].lang \o <<".">> \o fmt.value
             rest == PlanTracks(origin_video, video_info, trs, j + 1, tm, pat)
         IN IF st.raised # "none" THEN [err |-> st.raised, cmds |-> <<>>]
            ELSE IF fmt.raised # "none" THEN [err |-> fmt.raised, cmds |-> <<>>]
            ELSE [err |-> rest.err,
                  cmds |-> <<ExtractCmd(origin_video, trs[j].track, sub_name)>> \o rest.cmds]

\* The outer loop: err is the exception that ends planning ("none" when the
\* prompt is reached), cmds the pending list, probes the ffprobe commands
\* that were run on the way.
RECURSIVE PlanSubs(_, _, _, _, _)
PlanSubs(vs, i, trs, tm, pat) ==
    IF i > Len(vs) THEN [err |-> "none", cmds |-> <<>>, probes |-> <<>>]
    ELSE LET info == _get_video_info(vs[i])
             probe == [cmd |-> ProbeCmd(vs[i]), cwd |-> InheritCwd, rc |-> 0]
         IN IF info.raised # "none"
            THEN [err |-> info.raised, cmds |-> <<>>, probes |-> <<probe>>]
            ELSE LET inner == PlanTracks(vs[i], info, trs, 1, tm, pat)
                     rest == PlanSubs(vs, i + 1, trs, tm, pat)
                 IN IF inner.err # "none"
                    THEN [err |-> inner.err, cmds |-> inner.cmds, probes |-> <<probe>>]
                    ELSE [err |-> rest.err, cmds |-> inner.cmds \o rest.cmds,
                          probes |-> <<probe>> \o rest.probes]

(***************************************************************************)
(* extract_fonts                                                           *)
(***************************************************************************)
FontsName == <<"f", "o", "n", "t", "s">>

\* The loop body without its "is None" test: every video resets font_dir.
FontDirStepAlways(fd, video) == with_name(video, FontsName)

\* if font_dir is None: font_dir = video.with_name("fonts")
FontDirStep(fd, video) ==
    IF fd = NoPath THEN with_name(video, FontsName) ELSE fd

\* font_dir after the planning loop.
RECURSIVE FontDirLoop(_, _, _)
FontDirLoop(fd, video_collection, i) ==
    IF i > Len(video_collection) THEN fd
    ELSE FontDirLoop(FontDirStep(fd, video_collection[i]), video_collection, i + 1)

PlanFonts(video_collection) ==
    [i \in 1..Len(video_collection) |-> DumpCmd(video_collection[i])]

(***************************************************************************)
(* File system: a function from the existing paths to [kind, content].     *)
(***************************************************************************)
is_dir(fsys, p) == p \in DOMAIN fsys /\ fsys[p].kind = "dir"

\* mkdir that neither creates nor complains.
MkdirNoOp(fsys, p) == [raised |-> "none", fs |-> fsys]

\* mkdir for which exist_ok covers any existing entry, not only a directory.
MkdirExistOkAny(fsys, p) ==
    IF p \notin DOMAIN fsys
    THEN [raised |-> "none",
          fs |-> [q \in DOMAIN fsys \cup {p} |->
                    IF q = p THEN [kind |-> "dir", content |-> <<>>] ELSE fsys[q]]]
    ELSE [raised |-> "none", fs |-> fsys]

\* Path.mkdir(755, True, True): mode 755, parents=True, exist_ok=True.  The
\* parent of the font directory is the directory of a video and exists.
\* With exist_ok an existing directory is accepted; any other existing
\* entry raises FileExistsError.
mkdir(fsys, p) ==
    IF p \notin DOMAIN fsys
    THEN [raised |-> "none",
          fs |-> [q \in DOMAIN fsys \cup {p} |->
                    IF q = p THEN [kind |-> "dir", content |-> <<>>] ELSE fsys[q]]]
    ELSE IF fsys[p].kind = "dir" THEN [raised |-> "none", fs |-> fsys]
    ELSE [raised |-> "FileExistsError", fs |-> fsys]

\* subprocess.run with check=True: a non-zero exit raises.
RunChecked(fsys, cmd, cwd, rc) ==
    [raised |-> IF rc # 0 THEN "CalledProcessError" ELSE "none",
     entry |-> [cmd |-> cmd, cwd |-> cwd, rc |-> rc]]

\* subprocess.run(cmd, cwd=...): check is not set, so the exit code rc is
\* not looked at; a cwd that is no directory makes the start fail.
subprocess_run(fsys, cmd, cwd, rc) ==
    IF cwd # InheritCwd /\ ~is_dir(fsys, cwd)
    THEN [raised |-> IF cwd \in DOMAIN fsys THEN "NotADirectoryError"
                     ELSE "FileNotFoundError",
          entry |-> [cmd |-> cmd, cwd |-> cwd, rc |-> rc]]
    ELSE [raised |-> "none", entry |-> [cmd |-> cmd, cwd |-> cwd, rc |-> rc]]

\* Path.rename(target) on POSIX: the source entry moves to the target name
\* and replaces what was there.
rename(fsys, src, dst) ==
    IF src \notin DOMAIN fsys THEN [raised |-> "FileNotFoundError", fs |-> fsys]
    ELSE IF src = dst THEN [raised |-> "none", fs |-> fsys]
    ELSE [raised |-> "none",
          fs |-> [q \in (DOMAIN fsys \ {src}) \cup {dst} |->
                    IF q = dst THEN fsys[src] ELSE fsys[q]]]

(***************************************************************************)
(* rename_subtitles.py: planning                                           *)
(***************************************************************************)
\* f".{sub_lang}{sub_file.suffix}" if sub_lang else "".join(sub_file.suffixes)
sub_new_suffix(sub_name, lang) ==
    IF Len(lang) > 0 THEN <<".">> \o lang \o suffix(sub_name)
    ELSE joined_suffixes(sub_name)

\* The planning loop over working_directory.glob(sub_glob).
RECURSIVE PlanRenames(_, _, _, _, _)
PlanRenames(subs, i, d, pat, lang) ==
    IF i > Len(subs) THEN <<>>
    ELSE LET m == re_match(pat, stem(subs[i].name))
             rest == PlanRenames(subs, i + 1, d, pat, lang)
         IN IF m.matched /\ m.group1 \in DictKeys(d)
            THEN <<[src |-> subs[i],
                    new_name |-> stem(DictGet(d, m.group1).name)
                                 \o sub_new_suffix(subs[i].name, lang)]>> \o rest
            ELSE rest

(***************************************************************************)
(* The files, selections and answers the model draws its inputs from       *)
(***************************************************************************)
\* "A 01 r.mkv", "B 01 r.mkv" (same episode as the first), "A 02 r.mkv",
\* "A01.mkv" (no episode), "A 01 02 r.mkv" (two candidates: the last wins),
\* "A 03 r.mkv" (an episode no target has)
A01 == <<"A", " ", "0", "1", " ", "r", ".", "m", "k", "v">>

B01 == <<"B", " ", "0", "1", " ", "r", ".", "m", "k", "v">>

A02 == <<"A", " ", "0", "2", " ", "r", ".", "m", "k", "v">>

AX == <<"A", "0", "1", ".", "m", "k", "v">>

A12 == <<"A", " ", "0", "1", " ", "0", "2", " ", "r", ".", "m", "k", "v">>

A03 == <<"A", " ", "0", "3", " ", "r", ".", "m", "k", "v">>

\* "T 01 x.mp4", "T 02 x.mp4"
T01 == <<"T", " ", "0", "1", " ", "x", ".", "m", "p", "4">>

T02 == <<"T", " ", "0", "2", " ", "x", ".", "m", "p", "4">>

\* "E 01 v.mkv", "E 02 v.mkv": the videos subtitles are renamed after
E01 == <<"E", " ", "0", "1", " ", "v", ".", "m", "k", "v">>

E02 == <<"E", " ", "0", "2", " ", "v", ".", "m", "k", "v">>

\* "[01]a.ass", "[01]b.ass", "[02]a.ass", "[02]a.b.ass", "[03]a.ass",
\* "E 01 v.ass" (no bracketed episode), "[01]a.srt" (not matched by *.ass)
S1 == <<"[", "0", "1", "]", "a", ".", "a", "s", "s">>

S2 == <<"[", "0", "1", "]", "b", ".", "a", "s", "s">>

S3 == <<"[", "0", "2", "]", "a", ".", "a", "s", "s">>

S4 == <<"[", "0", "2", "]", "a", ".", "b", ".", "a", "s", "s">>

S5 == <<"[", "0", "3", "]", "a", ".", "a", "s", "s">>

S6 == <<"E", " ", "0", "1", " ", "v", ".", "a", "s", "s">>

S7 == <<"[", "0", "1", "]", "a", ".", "s", "r", "t">>

MkvSuffix == <<".", "m", "k", "v">>

Mp4Suffix == <<".", "m", "p", "4">>

AssSuffix == <<".", "a", "s", "s">>

\* re.compile(r".*\s(\d{2})[v\s].*") and re.compile(r".*\[(\d{2})\].*")
video_ep_pattern == Pattern(Whitespace, Whitespace \cup {"v"})

sub_ep_pattern == Pattern({"["}, {"]"})

MatchFiles == {Path("d", n) : n \in {A01, B01, A02, AX, A12}}

OriginFiles == {Path("d", n) : n \in {A01, A02, AX, A03}}

MainNames == {A01, AX, A03, T01, T02}

FontVideos == {Path("d", A01), Path("d", A02), Path("e", B01)}

SubNames == {S1, S2, S3, S4, S5, S6, S7}

\* {1: "ja", 2: "zh-Hans", 3: "zh-Hant", 4: "eng"} of the main block, and
\* shorter selections
MainTracks ==
    << [track |-> 1, lang |-> <<"j", "a">>],
       [track |-> 2, lang |-> <<"z", "h", "-", "H", "a", "n", "s">>],
       [track |-> 3, lang |-> <<"z", "h", "-", "H", "a", "n", "t">>],
       [track |-> 4, lang |-> <<"e", "n", "g">>] >>

TrackOptions == {<<>>, SubSeq(MainTracks, 1, 1), SubSeq(MainTracks, 1, 2)}

SubLangs == {<<>>, <<"z", "h">>}

Answers == {"", "Y", "y", "n", "N", "yes"}

\* Sequences of at most n elements of S, and those without repetition.
SeqsUpTo(S, n) == UNION {[1..k -> S] : k \in 0..n}

DistinctSeqsUpTo(S, n) ==
    {s \in SeqsUpTo(S, n) : \A i, j \in 1..Len(s) : i # j => s[i] # s[j]}

NoneDict == [isNone |-> TRUE, items |-> <<>>]

SomeDict(items) == [isNone |-> FALSE, items |-> items]

TargetMaps ==
    {NoneDict} \cup
    {SomeDict(format_video_by_ep_collection_with_pattern(ts, simple_ep_pattern)) :
        ts \in {<<>>, <<Path("d", T01)>>, <<Path("d", T01), Path("d", T02)>>}}

VideoMaps ==
    {SomeDict(format_video_by_ep_collection_with_pattern(vs, video_ep_pattern)) :
        vs \in {<<Path("d", E01)>>, <<Path("d", E01), Path("d", E02)>>}}

FontDirCands == {Path("d", FontsName), Path("e", FontsName)}

FsKinds == [FontDirCands -> {"absent", "file", "dir"}]

FsOfKinds(k) ==
    [p \in {q \in FontDirCands : k[q] # "absent"} |-> [kind |-> k[p], content |-> <<>>]]

FsOfListing(names) ==
    [p \in {Path("d", names[i]) : i \in 1..Len(names)} |->
        [kind |-> "file", content |-> p.name]]

(***************************************************************************)
(* State                                                                   *)
(***************************************************************************)
VARIABLES
    entry,        \* what was invoked: a function, or the script's main block
    op,           \* the function that is executing
    pc,           \* its position: start, prompt, mkdir, exec, returned, raised
    listing,      \* the names of the working directory, in directory order
    videos,       \* origin_video_collection / video_collection
    tracks,       \* sub_lang_by_track_collection, in insertion order
    tmap,         \* target_video_by_ep_collection / video_stem_by_ep_collection
    pattern,      \* origin_video_ep_pattern / video_ep_pattern / sub_ep_pattern
    font_dir_arg, \* extract_fonts' font_dir argument
    font_dir,     \* extract_fonts' font_dir after planning
    sub_lang,     \* rename_subtitles' sub_lang
    fs,           \* the file system
    fs0,          \* the file system when the call started
    pending,      \* pending_subtitle_extraction / pending_font_extraction /
                  \* pending_rename_operation_collection
    idx,          \* position of the executing loop in pending
    ran,          \* the external commands run so far, with cwd and exit code
    answered,     \* the prompt of the executing function has been answered
    answer,       \* the line the user typed
    accepted,     \* what prompt_for_user_confirmation returned
    err,          \* the exception that ended the run, or "none"
    result        \* the value returned by the episode matcher

vars == <<entry, op, pc, listing, videos, tracks, tmap, pattern, font_dir_arg,
          font_dir, sub_lang, fs, fs0, pending, idx, ran, answered, answer,
          accepted, err, result>>

InitCommon ==
    /\ pc = "start"
    /\ font_dir = NoPath
    /\ fs0 = fs
    /\ pending = <<>>
    /\ idx = 1
    /\ ran = <<>>
    /\ answered = FALSE
    /\ answer = ""
    /\ accepted = FALSE
    /\ err = "none"
    /\ result = <<>>

InitMatch ==
    /\ entry = "format_video_by_ep_collection_with_pattern"
    /\ op = entry
    /\ videos \in SeqsUpTo(MatchFiles, MaxFiles)
    /\ pattern \in {simple_ep_pattern, video_ep_pattern}
    /\ listing = <<>> /\ tracks = <<>> /\ tmap = NoneDict
    /\ font_dir_arg = NoPath /\ sub_lang = <<>> /\ fs = <<>>

InitSubs ==
    /\ entry = "extract_subtitles"
    /\ op = entry
    /\ videos \in DistinctSeqsUpTo(OriginFiles, MaxFiles)
    /\ tracks \in TrackOptions
    /\ tmap \in TargetMaps
    /\ pattern = simple_ep_pattern
    /\ listing = <<>> /\ font_dir_arg = NoPath /\ sub_lang = <<>> /\ fs = <<>>

InitFonts ==
    /\ entry = "extract_fonts"
    /\ op = entry
    /\ videos \in DistinctSeqsUpTo(FontVideos, MaxFiles)
    /\ font_dir_arg \in {NoPath, Path("e", FontsName)}
    /\ \E k \in FsKinds : fs = FsOfKinds(k)
    /\ listing = <<>> /\ tracks = <<>> /\ tmap = NoneDict
    /\ pattern = simple_ep_pattern /\ sub_lang = <<>>

InitRename ==
    /\ entry = "rename_subtitles"
    /\ op = entry
    /\ listing \in DistinctSeqsUpTo(SubNames, MaxFiles)
    /\ fs = FsOfListing(listing)
    /\ tmap \in VideoMaps
    /\ pattern = sub_ep_pattern
    /\ sub_lang \in SubLangs
    /\ videos = <<>> /\ tracks = <<>> /\ font_dir_arg = NoPath

InitMain ==
    /\ entry = "main"
    /\ op = entry
    /\ listing \in DistinctSeqsUpTo(MainNames, MaxFiles)
    /\ fs = FsOfListing(listing)
    /\ videos = <<>> /\ tracks = <<>> /\ tmap = NoneDict
    /\ pattern = simple_ep_pattern /\ font_dir_arg = NoPath /\ sub_lang = <<>>

Init ==
    /\ InitMatch \/ InitSubs \/ InitFonts \/ InitRename \/ InitMain
    /\ InitCommon

(***************************************************************************)
(* Operations                                                              *)
(***************************************************************************)
\* format_video_by_ep_collection_with_pattern(videos, pattern)
MatchCall ==
    /\ op = "format_video_by_ep_collection_with_pattern"
    /\ pc = "start"
    /\ result' = format_video_by_ep_collection_with_pattern(videos, pattern)
    /\ pc' = "returned"
    /\ UNCHANGED <<entry, op, listing, videos, tracks, tmap, pattern, font_dir_arg,
                   font_dir, sub_lang, fs, fs0, pending, idx, ran, answered,
                   answer, accepted, err>>

\* The main block of extract_subtitles.py up to the call of
\* extract_subtitles: the globs "*.mkv" and "*.mp4" over the video
\* directory, the target map, and origin_video_ep_pattern, which is set to
\* origin_video_collection (a tuple) and not to the compiled pattern.
MainBegin ==
    /\ op = "main"
    /\ pc = "start"
    /\ videos' = get_video_collection_with_glob(listing, MkvSuffix, "d")
    /\ tracks' = MainTracks
    /\ tmap' = SomeDict(get_video_by_ep_collection_with_glob_and_pattern(
                            listing, Mp4Suffix, simple_ep_pattern, "d"))
    /\ pattern' = [type |-> "tuple", pre |-> {}, post |-> {}]
    /\ op' = "extract_subtitles"
    /\ UNCHANGED <<entry, pc, listing, font_dir_arg, font_dir, sub_lang, fs, fs0,
                   pending, idx, ran, answered, answer, accepted, err, result>>

\* extract_subtitles up to its prompt: the planning loops.
SubsPlan ==
    /\ op = "extract_subtitles"
    /\ pc = "start"
    /\ LET r == PlanSubs(videos, 1, tracks, tmap, pattern)
       IN /\ ran' = ran \o r.probes
          /\ pending' = r.cmds
          /\ err' = r.err
          /\ pc' = IF r.err = "none" THEN "prompt" ELSE "raised"
    /\ UNCHANGED <<entry, op, listing, videos, tracks, tmap, pattern, font_dir_arg,
                   font_dir, sub_lang, fs, fs0, idx, answered, answer, accepted,
                   result>>

\* extract_fonts up to its prompt; an empty collection returns at once.
FontsPlan ==
    /\ op = "extract_fonts"
    /\ pc = "start"
    /\ IF Len(videos) = 0
       THEN /\ pc' = "returned"
            /\ UNCHANGED <<pending, font_dir>>
       ELSE /\ pending' = PlanFonts(videos)
            /\ font_dir' = FontDirLoop(font_dir_arg, videos, 1)
            /\ pc' = "prompt"
    /\ UNCHANGED <<entry, op, listing, videos, tracks, tmap, pattern, font_dir_arg,
                   sub_lang, fs, fs0, idx, ran, answered, answer, accepted, err,
                   result>>

\* rename_subtitles up to its prompt.
RenamePlan ==
    /\ op = "rename_subtitles"
    /\ pc = "start"
    /\ pending' = PlanRenames(GlobLoop(listing, 1, "d", AssSuffix), 1,
                              tmap.items, pattern, sub_lang)
    /\ pc' = "prompt"
    /\ UNCHANGED <<entry, op, listing, videos, tracks, tmap, pattern, font_dir_arg,
                   font_dir, sub_lang, fs, fs0, idx, ran, answered, answer,
                   accepted, err, result>>

\* The user types a line at the prompt of the executing function.
Answer ==
    /\ pc = "prompt"
    /\ \E a \in Answers :
        /\ answer' = a
        /\ answered' = TRUE
        /\ accepted' = prompt_for_user_confirmation(a)
        /\ pc' = IF prompt_for_user_confirmation(a)
                 THEN IF op = "extract_fonts" THEN "mkdir" ELSE "exec"
                 ELSE "returned"
    /\ UNCHANGED <<entry, op, listing, videos, tracks, tmap, pattern, font_dir_arg,
                   font_dir, sub_lang, fs, fs0, pending, idx, ran, err, result>>

\* if not font_dir.is_dir(): font_dir.mkdir(755, True, True)
FontsMkdir ==
    /\ op = "extract_fonts"
    /\ pc = "mkdir"
    /\ IF is_dir(fs, font_dir)
       THEN /\ pc' = "exec"
            /\ UNCHANGED <<fs, err>>
       ELSE LET r == mkdir(fs, font_dir)
            IN /\ fs' = r.fs
               /\ err' = r.raised
               /\ pc' = IF r.raised = "none" THEN "exec" ELSE "raised"
    /\ UNCHANGED <<entry, op, listing, videos, tracks, tmap, pattern, font_dir_arg,
                   font_dir, sub_lang, fs0, pending, idx, ran, answered, answer,
                   accepted, result>>

\* One turn of "for cmd in pending: subprocess.run(cmd[, cwd=font_dir])",
\* the loop that ends extract_subtitles and extract_fonts alike.
RunCommand ==
    /\ op \in {"extract_subtitles", "extract_fonts"}
    /\ pc = "exec"
    /\ idx <= Len(pending)
    /\ \E rc \in {0, 1} :
        LET r == subprocess_run(fs, pending[idx],
                                IF op = "extract_fonts" THEN font_dir ELSE InheritCwd,
                                rc)
        IN /\ err' = r.raised
           /\ pc' = IF r.raised = "none" THEN "exec" ELSE "raised"
           /\ ran' = IF r.raised = "none" THEN Append(ran, r.entry) ELSE ran
           /\ idx' = IF r.raised = "none" THEN idx + 1 ELSE idx
    /\ UNCHANGED <<entry, op, listing, videos, tracks, tmap, pattern, font_dir_arg,
                   font_dir, sub_lang, fs, fs0, pending, answered, answer,
                   accepted, result>>

\* One turn of the renaming loop:
\* sub_file.rename(sub_file.with_name(sub_new_name))
RenameNext ==
    /\ op = "rename_subtitles"
    /\ pc = "exec"
    /\ idx <= Len(pending)
    /\ LET r == rename(fs, pending[idx].src,
                       with_name(pending[idx].src, pending[idx].new_name))
       IN /\ fs' = r.fs
          /\ err' = r.raised
          /\ pc' = IF r.raised = "none" THEN "exec" ELSE "raised"
          /\ idx' = IF r.raised = "none" THEN idx + 1 ELSE idx
    /\ UNCHANGED <<entry, op, listing, videos, tracks, tmap, pattern, font_dir_arg,
                   font_dir, sub_lang, fs0, pending, ran, answered, answer,
                   accepted, result>>

\* The executing loop has gone through pending: the function returns.
LoopEnd ==
    /\ pc = "exec"
    /\ idx > Len(pending)
    /\ pc' = "returned"
    /\ UNCHANGED <<entry, op, listing, videos, tracks, tmap, pattern, font_dir_arg,
                   font_dir, sub_lang, fs, fs0, pending, idx, ran, answered,
                   answer, accepted, err, result>>

\* The main block after extract_subtitles has returned:
\* extract_fonts(origin_video_collection)
MainContinue ==
    /\ entry = "main"
    /\ op = "extract_subtitles"
    /\ pc = "returned"
    /\ op' = "extract_fonts"
    /\ pc' = "start"
    /\ pending' = <<>>
    /\ idx' = 1
    /\ answered' = FALSE
    /\ accepted' = FALSE
    /\ UNCHANGED <<entry, listing, videos, tracks, tmap, pattern, font_dir_arg,
                   font_dir, sub_lang, fs, fs0, ran, answer, err, result>>

Next ==
    \/ MatchCall
    \/ MainBegin
    \/ SubsPlan
    \/ FontsPlan
    \/ RenamePlan
    \/ Answer
    \/ FontsMkdir
    \/ RunCommand
    \/ RenameNext
    \/ LoopEnd
    \/ MainContinue

Spec == Init /\ [][Next]_vars

(***************************************************************************)
(* Properties                                                              *)
(***************************************************************************)
Batches == {"extract_subtitles", "extract_fonts", "rename_subtitles"}

Rejected == answered /\ answer \notin {"", "Y", "y"}

IsExtraction(e) == e.cmd.tool # "ffprobe"

\* The commands the executing loop has run, in the order it ran them.
Executed == [i \in 1..Len(SelectSeq(ran, IsExtraction)) |->
                SelectSeq(ran, IsExtraction)[i].cmd]

\* C1: in each of the three batches, while the prompt is waiting and after
\* an answer other than "", "Y" or "y", the file system is what it was when
\* the call started and no external command has been run; the call returns
\* right after such an answer.
Thm_C1_RejectionChangesNothing ==
    (op \in Batches /\ (pc = "prompt" \/ Rejected)) =>
        /\ fs = fs0
        /\ ran = <<>>
        /\ Rejected => (pc = "returned" /\ ~accepted /\ err = "none")

Wit_C1_RejectedRenameBatch ==
    /\ op = "rename_subtitles"
    /\ pc = "returned"
    /\ Rejected
    /\ Len(pending) >= 2

\* C2 (as claimed): planning of extract_subtitles always reaches the prompt,
\* with one command per (origin file, track) pair (this version derives the
\* single format of a track from its codec), origin files outermost in
\* collection order, tracks in configured order within each file.
Cex_C2_PlanReachesPromptWithProduct ==
    (op = "extract_subtitles" /\ pc \in {"prompt", "raised"}) =>
        /\ pc = "prompt"
        /\ Len(pending) = Len(videos) * Len(tracks)
        /\ \A k \in 1..Len(pending) :
            /\ pending[k].input = videos[((k - 1) \div Len(tracks)) + 1]
            /\ pending[k].track = tracks[((k - 1) % Len(tracks)) + 1].track

\* C3: the map returned by the episode matcher has exactly the group-1
\* values of the files whose stem matches as its keys, each once, each
\* mapped to the last such file of the sequence; files that do not match
\* add nothing and raise nothing.
Thm_C3_MatcherLastWins ==
    (op = "format_video_by_ep_collection_with_pattern" /\ pc = "returned") =>
        LET m(i) == re_match(pattern, stem(videos[i].name))
            hits == {i \in 1..Len(videos) : m(i).matched}
            keys == {m(i).group1 : i \in hits}
        IN /\ err = "none"
           /\ DictKeys(result) = keys
           /\ Len(result) = Cardinality(keys)
           /\ \A key \in keys :
                DictGet(result, key) =
                    videos[SetMax({i \in hits : m(i).group1 = key})]

Wit_C3_DuplicateKey ==
    /\ op = "format_video_by_ep_collection_with_pattern"
    /\ pc = "returned"
    /\ \E i, j \in 1..Len(videos) :
        /\ i < j
        /\ videos[i] # videos[j]
        /\ re_match(pattern, stem(videos[i].name)).matched
        /\ re_match(pattern, stem(videos[i].name)) = re_match(pattern, stem(videos[j].name))
    /\ Len(result) = 1

\* The stem C4 expects for the subtitles of an origin file; episodes are
\* recognised with the pattern the caller (or the main block's metadata)
\* names, which is simple_ep_pattern throughout.
ExpectedStem(origin_video) ==
    LET m == re_match(simple_ep_pattern, stem(origin_video.name))
    IN IF m.matched /\ m.group1 \in DictKeys(tmap.items)
       THEN stem(DictGet(tmap.items, m.group1).name)
       ELSE stem(origin_video.name)

\* An origin file whose episode is recognised and has no target.
LookupMiss(origin_video) ==
    LET m == re_match(simple_ep_pattern, stem(origin_video.name))
    IN m.matched /\ m.group1 \notin DictKeys(tmap.items)

\* C4 (as claimed): with a target map supplied, directly or by the main
\* block, and no origin file missing its target, planning does not raise
\* and every planned output name starts with the target's stem (episode
\* found in the map) or the origin file's own stem (stem not matching).
Cex_C4_StemFromTargetOrOrigin ==
    (/\ op = "extract_subtitles"
     /\ pc \in {"prompt", "raised"}
     /\ ~tmap.isNone
     /\ \A i \in 1..Len(videos) : ~LookupMiss(videos[i])) =>
        /\ pc = "prompt"
        /\ \A k \in 1..Len(pending) :
            LET es == ExpectedStem(pending[k].input)
            IN /\ Len(pending[k].output) > Len(es)
               /\ SubSeq(pending[k].output, 1, Len(es) + 1) = es \o <<".">>

\* C5: in extract_fonts the file system changes only once the user has
\* accepted, and only by the font directory coming into being; the
\* directory exists whenever the executing loop is about to start a
\* command; every command that ran had it as working directory; and it is
\* one directory for the batch, the argument or else "fonts" beside the
\* first video.
Thm_C5_FontDirAfterAcceptBeforeRuns ==
    op = "extract_fonts" =>
        /\ fs # fs0 =>
            /\ accepted
            /\ pc \in {"exec", "returned"}
            /\ font_dir \notin DOMAIN fs0
            /\ DOMAIN fs = DOMAIN fs0 \cup {font_dir}
            /\ \A q \in DOMAIN fs0 : fs[q] = fs0[q]
        /\ pc = "exec" => is_dir(fs, font_dir)
        /\ ran # <<>> => (accepted /\ is_dir(fs, font_dir))
        /\ \A i \in 1..Len(ran) : ran[i].cwd = font_dir
        /\ pc \in {"prompt", "mkdir", "exec"} =>
            font_dir = IF font_dir_arg = NoPath
                       THEN with_name(videos[1], FontsName)
                       ELSE font_dir_arg

Wit_C5_DirCreatedThenTwoRuns ==
    /\ op = "extract_fonts"
    /\ pc = "returned"
    /\ font_dir \notin DOMAIN fs0
    /\ is_dir(fs, font_dir)
    /\ Len(ran) >= 2
    /\ videos[1].parent # videos[2].parent

\* C6 (as claimed): when the font directory already exists as the user
\* accepts, extract_fonts ends with an error and runs no command.
Cex_C6_ExistingDirIsFatal ==
    (op = "extract_fonts" /\ accepted /\ is_dir(fs0, font_dir)) =>
        /\ pc \in {"mkdir", "raised"}
        /\ ran = <<>>

\* C6 (amended): when the font destination exists as something that is not
\* a directory as the user accepts, extract_fonts ends with FileExistsError
\* and runs no command; when it exists as a directory nothing is raised,
\* nothing is created and the commands run in it.
Thm_C6_ExistingFileIsFatal ==
    (op = "extract_fonts" /\ accepted) =>
        /\ (font_dir \in DOMAIN fs0 /\ ~is_dir(fs0, font_dir)) =>
            /\ pc \in {"mkdir", "raised"}
            /\ pc = "raised" => err = "FileExistsError"
            /\ ran = <<>>
            /\ fs = fs0
        /\ is_dir(fs0, font_dir) =>
            /\ pc # "raised"
            /\ fs = fs0
            /\ pc = "returned" => Executed = pending
        /\ pc = "raised" => (font_dir \in DOMAIN fs0 /\ ~is_dir(fs0, font_dir))

Wit_C6_FileInTheWay ==
    /\ op = "extract_fonts"
    /\ pc = "raised"
    /\ err = "FileExistsError"
    /\ accepted
    /\ Len(pending) >= 1
    /\ fs0[font_dir].kind = "file"

\* C7 (as claimed): after an accepted confirmation the batch never stops
\* early: the loop runs the commands of pending in list order and the
\* function returns with all of them run.
Cex_C7_AcceptedBatchRunsToItsEnd ==
    (op \in {"extract_subtitles", "extract_fonts"} /\ accepted) =>
        /\ pc # "raised"
        /\ pc = "exec" => Executed = SubSeq(pending, 1, idx - 1)
        /\ pc = "returned" => Executed = pending

\* C7 (amended): once the user has accepted, the executing loop of
\* extract_subtitles and extract_fonts has run exactly the commands of
\* pending before its position, in list order, whatever their exit codes
\* were, and exactly pending when the function returns; nothing raises in
\* the loop: the only exception after an acceptance is the FileExistsError
\* of the font directory's creation, raised before the loop starts.
Thm_C7_ExecutorRunsAllInOrder ==
    (op \in {"extract_subtitles", "extract_fonts"} /\ accepted) =>
        /\ pc = "exec" =>
            /\ idx \in 1..(Len(pending) + 1)
            /\ Executed = SubSeq(pending, 1, idx - 1)
        /\ pc = "returned" => Executed = pending
        /\ pc = "raised" =>
            /\ op = "extract_fonts"
            /\ err = "FileExistsError"
            /\ ran = <<>>

Wit_C7_FailedCommandThenNext ==
    /\ op = "extract_fonts"
    /\ pc = "returned"
    /\ accepted
    /\ Len(pending) >= 2
    /\ Len(ran) = Len(pending)
    /\ ran[1].rc # 0

\* The new path of a subtitle of the working directory that C8 expects to
\* be renamed.
Renamed(name) ==
    LET m == re_match(pattern, stem(name))
    IN EndsWith(name, AssSuffix) /\ m.matched /\ m.group1 \in DictKeys(tmap.items)

ExpectedNewName(name) ==
    LET m == re_match(pattern, stem(name))
    IN stem(DictGet(tmap.items, m.group1).name)
       \o (IF Len(sub_lang) > 0 THEN <<".">> \o sub_lang \o suffix(name)
           ELSE joined_suffixes(name))

\* C8 (as claimed): after a confirmed rename batch every subtitle that
\* matches the glob and the pattern and whose episode is in the map is
\* found under the video's stem plus the new suffix, and every other file
\* of the directory still has its name and content.
Cex_C8_RenamedOrUntouched ==
    (op = "rename_subtitles" /\ pc = "returned" /\ accepted) =>
        \A i \in 1..Len(listing) :
            LET old == Path("d", listing[i])
            IN IF Renamed(listing[i])
               THEN LET new == Path("d", ExpectedNewName(listing[i]))
                    IN new \in DOMAIN fs /\ fs[new] = fs0[old]
               ELSE old \in DOMAIN fs /\ fs[old] = fs0[old]

\* C9 (as claimed): with a non-empty target map and an origin file whose
\* episode has no target, extract_subtitles ends with a lookup error
\* (KeyError) before the prompt and runs no extraction command.
Cex_C9_LookupMissRaisesKeyError ==
    (/\ entry = "extract_subtitles"
     /\ pc # "start"
     /\ Truthy(tmap)
     /\ \E i \in 1..Len(videos) : LookupMiss(videos[i])) =>
        /\ pc = "raised"
        /\ err = "KeyError"
        /\ ~answered
        /\ Executed = <<>>

\* C10 (as claimed): the pending renames never give two source files the
\* same new name nor a new name that another file of the directory has,
\* and a confirmed batch leaves as many files as it found.
Cex_C10_NoFileLost ==
    (op = "rename_subtitles" /\ pc \in {"prompt", "exec", "returned"}) =>
        /\ \A i, j \in 1..Len(pending) :
            pending[i].src # pending[j].src => pending[i].new_name # pending[j].new_name
        /\ \A i \in 1..Len(pending) :
            LET dst == with_name(pending[i].src, pending[i].new_name)
            IN dst \in DOMAIN fs0 => dst = pending[i].src
        /\ pc = "returned" => Cardinality(DOMAIN fs) = Cardinality(DOMAIN fs0)

====
